---------------------------- MODULE Spec2Model ----------------------------
(***************************************************************************)
(* Model of the yandex-money client library: the Transport, the response   *)
(* envelope Rsp<T>, the paginated operation_history stream, the            *)
(* authorization flow, the single-call API methods and PaymentRequest.     *)
(***************************************************************************)
EXTENDS Integers, Sequences, FiniteSets, TLC

(***************************************************************************)
(* Bounds of the model.                                                    *)
(***************************************************************************)
MaxPages == 2       \* page requests one history stream may issue
MaxCalls == 2       \* invocations of single-call methods in one run

VARIABLES
    wire,       \* requests handed to the Transport, each with its reply
    hist,       \* the generator state of the operation_history stream
    stream,     \* what the consumer of the stream has observed so far
    auth,       \* the state of UnauthorizedClient::authorize
    api,        \* the running single-call method of Client
    remote,     \* what the remote knows about the client's token
    pay,        \* the PaymentRequest object and its send
    envelope    \* a reply and what CallerWrapper::call made of it

vars == <<wire, hist, stream, auth, api, remote, pay, envelope>>

(***************************************************************************)
(* The caller is one task that uses one family of entry points per run, as *)
(* the command-line front-end does: the history stream, the authorization  *)
(* flow, the single-call methods or a payment request.                     *)
(***************************************************************************)
NoHistory == hist.pc = "idle"

NoAuthorize == auth.pc = "Unauthorized"

NoApiCall == api.pc = "idle"

NoPayment == pay.state = "none"

(***************************************************************************)
(* Option<T> is a sequence of length at most one.                          *)
(***************************************************************************)
None == <<>>

Some(v) == <<v>>

(***************************************************************************)
(* Response bodies.  A body is text; what the decoder can tell about it is *)
(* whether it is JSON at all, what JSON value it is, whether it carries a  *)
(* member "error" and of which type, and whether it deserializes as the    *)
(* success payload T of the endpoint (shape), in which case payload is the *)
(* value it deserializes to.                                               *)
(***************************************************************************)
ErrTexts == {"some text"}

NoPayload == [operations |-> <<>>, next_record |-> None]

Garbage == [kind |-> "garbage", errKind |-> "absent", error |-> "",
            shape |-> FALSE, payload |-> NoPayload]

ErrFields ==
    {[errKind |-> "absent", error |-> ""], [errKind |-> "other", error |-> ""]}
    \cup {[errKind |-> "string", error |-> t] : t \in ErrTexts}

\* JSON objects: with or without a member "error", matching T or not.
ObjectBodies(Payloads) ==
    {[kind |-> "object", errKind |-> e.errKind, error |-> e.error,
      shape |-> FALSE, payload |-> NoPayload] : e \in ErrFields}
    \cup {[kind |-> "object", errKind |-> e.errKind, error |-> e.error,
           shape |-> TRUE, payload |-> p] : e \in ErrFields, p \in Payloads}

\* A JSON value that is not an object and matches no payload.
ArrayBodies ==
    {[kind |-> "array", errKind |-> "absent", error |-> "",
      shape |-> FALSE, payload |-> NoPayload]}

Bodies(Payloads) == {Garbage} \cup ObjectBodies(Payloads) \cup ArrayBodies

(***************************************************************************)
(* Errors.  transport::Error is NetworkError or ParseError; the library    *)
(* Error wraps it as TransportError, or is YandexError with the remote's   *)
(* description, or AuthorizationCallbackError with the callback's error.   *)
(***************************************************************************)
NetworkError == [type |-> "TransportError", source |-> "NetworkError", description |-> ""]

ParseError == [type |-> "TransportError", source |-> "ParseError", description |-> ""]

YandexError(text) == [type |-> "YandexError", source |-> "", description |-> text]

AuthorizationCallbackError(e) ==
    [type |-> "AuthorizationCallbackError", source |-> e, description |-> ""]

Ok(v) == [ok |-> TRUE, value |-> v, err |-> YandexError("")]

Err(e) == [ok |-> FALSE, value |-> NoPayload, err |-> e]

(***************************************************************************)
(* serde_json::from_str::<Rsp<T>>: Rsp is an untagged enum, so the variants*)
(* are tried in declaration order, Error { error: String } first (a map    *)
(* with a string member "error", other members ignored), then OK(T).       *)
(***************************************************************************)
MatchesError(body) ==
    body.kind = "object" /\ body.errKind = "string"

FromStrOkFirst(body) ==
    IF body.kind = "garbage" THEN [variant |-> "ParseError", error |-> "", payload |-> NoPayload]
    ELSE IF body.shape THEN [variant |-> "OK", error |-> "", payload |-> body.payload]
    ELSE IF MatchesError(body)
         THEN [variant |-> "Error", error |-> body.error, payload |-> NoPayload]
    ELSE [variant |-> "ParseError", error |-> "", payload |-> NoPayload]

FromStr(body) ==
    IF body.kind = "garbage" THEN [variant |-> "ParseError", error |-> "", payload |-> NoPayload]
    ELSE IF MatchesError(body)
         THEN [variant |-> "Error", error |-> body.error, payload |-> NoPayload]
    ELSE IF body.shape THEN [variant |-> "OK", error |-> "", payload |-> body.payload]
    ELSE [variant |-> "ParseError", error |-> "", payload |-> NoPayload]

\* Rsp::into_result
IntoResult(rsp) ==
    IF rsp.variant = "Error" THEN Err(YandexError(rsp.error)) ELSE Ok(rsp.payload)

(***************************************************************************)
(* Replies of the remote to a Transport::call.  net says whether sending   *)
(* the request and reading the body worked.                                *)
(***************************************************************************)
Pending == [net |-> "pending", status |-> 0, location |-> None, body |-> Garbage]

SendFailed == [net |-> "send_failed", status |-> 0, location |-> None, body |-> Garbage]

ReadFailed == [net |-> "read_failed", status |-> 200, location |-> None, body |-> Garbage]

ErrorStatuses == {401}

CallReplies(Payloads) ==
    {SendFailed, ReadFailed}
    \cup {[net |-> "ok", status |-> 200, location |-> None, body |-> b] : b \in Bodies(Payloads)}
    \cup {[net |-> "ok", status |-> s, location |-> None, body |-> b] :
            s \in ErrorStatuses, b \in {Garbage}}

\* RemoteCaller::call: the body text, or a failure of the request.
TransportCall(reply) ==
    IF reply.net # "ok" THEN [ok |-> FALSE, data |-> Garbage]
    ELSE IF reply.status >= 400 THEN [ok |-> FALSE, data |-> Garbage]
    ELSE [ok |-> TRUE, data |-> reply.body]

\* CallerWrapper::call followed by .context(TransportError)?.into_result()
CallResult(reply) ==
    LET c == TransportCall(reply) IN
    IF ~c.ok THEN Err(NetworkError)
    ELSE LET rsp == FromStr(c.data) IN
         IF rsp.variant = "ParseError" THEN Err(ParseError) ELSE IntoResult(rsp)

\* CallerWrapper::call_empty followed by .context(TransportError)
CallEmptyResult(reply) ==
    IF TransportCall(reply).ok THEN Ok(NoPayload) ELSE Err(NetworkError)

(***************************************************************************)
(* The wire: every request handed to the Transport, with its reply once    *)
(* the remote has answered.                                                *)
(***************************************************************************)
Request(by, call, kind, endpoint, params) ==
    [by |-> by, call |-> call, kind |-> kind, endpoint |-> endpoint,
     params |-> params, reply |-> Pending]

InFlight(by) == {i \in DOMAIN wire : wire[i].by = by /\ wire[i].reply = Pending}

RequestsOf(by) == {i \in DOMAIN wire : wire[i].by = by}

Answer(i, reply) == [wire EXCEPT ![i].reply = reply]

(***************************************************************************)
(* operation_history.  The arguments of a call; operation_types is the     *)
(* iteration order of the HashSet, from and till are seconds since epoch.  *)
(***************************************************************************)
Filters ==
    {[operation_types |-> <<>>, label |-> None, from |-> None, till |-> None,
      details |-> FALSE],
     [operation_types |-> <<"deposition", "payment">>, label |-> Some("lbl"),
      from |-> Some(0), till |-> None, details |-> TRUE],
     [operation_types |-> <<"payment", "deposition">>, label |-> None,
      from |-> None, till |-> Some(60), details |-> TRUE]}

StartRecords == {0, 3}

HistoryArgs ==
    {[filter |-> f, start_record |-> s] : f \in Filters, s \in StartRecords}

\* serde_json::to_string of a unit variant: the name as a JSON string.
JsonString(v) == "\"" \o v \o "\""

RECURSIVE Join(_, _)
Join(strs, sep) ==
    IF strs = <<>> THEN ""
    ELSE IF Len(strs) = 1 THEN Head(strs)
    ELSE Head(strs) \o sep \o Join(Tail(strs), sep)

\* DateTime<Utc>::to_rfc3339
ToRfc3339(t) ==
    IF t = 0 THEN "1970-01-01T00:00:00+00:00" ELSE "1970-01-01T00:01:00+00:00"

BoolToString(b) == IF b THEN "true" ELSE "false"

\* HashMap::insert
Insert(params, k, v) == [x \in DOMAIN params \cup {k} |-> IF x = k THEN v ELSE params[x]]

InsertIfSome(params, k, opt) == IF opt = None THEN params ELSE Insert(params, k, opt[1])

EmptyMap == [x \in {} |-> ""]

\* The parameters built before the stream is created.
HistoryParams(f) ==
    LET p1 == Insert(EmptyMap, "types",
                     Join([i \in DOMAIN f.operation_types |->
                              JsonString(f.operation_types[i])], " "))
        p2 == InsertIfSome(p1, "label", f.label)
        p3 == IF f.from = None THEN p2 ELSE Insert(p2, "from", ToRfc3339(f.from[1]))
        p4 == IF f.till = None THEN p3 ELSE Insert(p3, "till", ToRfc3339(f.till[1]))
    IN Insert(p4, "details", BoolToString(f.details))

\* The operation lists and the next_record cursors pages are tried with.
OpSeqs == {<<>>, <<"op1">>, <<"op1", "op2">>, <<"op2", "op1">>}

Cursors == {3, 5}

HistoryPages ==
    {[operations |-> ops, next_record |-> n] :
        ops \in OpSeqs, n \in {None} \cup {Some(c) : c \in Cursors}}

HistoryReplies == CallReplies(HistoryPages)

Item(op) == [ok |-> TRUE, op |-> op, err |-> YandexError("")]

ErrItem(e) == [ok |-> FALSE, op |-> "", err |-> e]

\* args keeps the arguments of the call for reference.
NoHistoryArgs ==
    [filter |-> [operation_types |-> <<>>, label |-> None, from |-> None,
                 till |-> None, details |-> FALSE],
     start_record |-> 0]

HistoryIdle ==
    [pc |-> "idle", args |-> NoHistoryArgs, start_record |-> 0, params |-> EmptyMap,
     operations |-> <<>>, next_record |-> None]

\* Client::operation_history: builds the parameters; the stream is lazy.
OperationHistory(args) ==
    /\ NoHistory /\ NoAuthorize /\ NoApiCall /\ NoPayment
    /\ hist' = [HistoryIdle EXCEPT !.pc = "loop",
                                   !.args = args,
                                   !.start_record = args.start_record,
                                   !.params = HistoryParams(args.filter)]
    /\ UNCHANGED <<wire, stream, auth, api, remote, pay, envelope>>

\* Top of the loop: insert the cursor and hand the request to the caller.
HistoryLoopStaleCursor(start_record) ==
    LET params == Insert(hist.params, "start-record", ToString(hist.start_record)) IN
    /\ Cardinality(RequestsOf("operation_history")) < MaxPages
    /\ hist' = [hist EXCEPT !.pc = "await", !.params = params, !.next_record = None]
    /\ wire' = Append(wire, Request("operation_history", 1, "call",
                                     "api/operation-history", params))

HistoryLoop(start_record) ==
    LET params == Insert(hist.params, "start-record", ToString(start_record)) IN
    /\ Cardinality(RequestsOf("operation_history")) < MaxPages
    /\ hist' = [hist EXCEPT !.pc = "await", !.start_record = start_record,
                            !.params = params, !.next_record = None]
    /\ wire' = Append(wire, Request("operation_history", 1, "call",
                                     "api/operation-history", params))

\* The first poll of the stream enters the loop.
HistoryPoll ==
    /\ hist.pc = "loop"
    /\ HistoryLoop(hist.start_record)
    /\ UNCHANGED <<stream, auth, api, remote, pay, envelope>>

\* The ? of try_stream!: the error is the next item and the stream ends.
HistoryFailRetries(err) ==
    /\ stream' = [stream EXCEPT !.items = Append(@, ErrItem(err))]
    /\ hist' = [hist EXCEPT !.pc = "yield", !.operations = <<>>,
                            !.next_record = Some(hist.start_record)]

HistoryFail(err) ==
    /\ stream' = [items |-> Append(stream.items, ErrItem(err)), ended |-> TRUE]
    /\ hist' = [hist EXCEPT !.pc = "done"]

\* rsp.operations.is_empty(): return.
HistoryEmptyFollowsCursor(page) ==
    /\ UNCHANGED <<stream, auth, api, remote, pay, envelope>>
    /\ hist' = [hist EXCEPT !.pc = "yield", !.operations = <<>>,
                            !.next_record = page.next_record]

HistoryEmpty(page) ==
    /\ stream' = [stream EXCEPT !.ended = TRUE]
    /\ hist' = [hist EXCEPT !.pc = "done"]

\* The for loop reaches its first yield.
HistoryFirstYieldRepeats(page) ==
    /\ stream' = [stream EXCEPT !.items = Append(@, Item(Head(page.operations)))]
    /\ hist' = [hist EXCEPT !.pc = "yield",
                            !.operations = page.operations,
                            !.next_record = page.next_record]

HistoryFirstYield(page) ==
    /\ stream' = [stream EXCEPT !.items = Append(@, Item(Head(page.operations)))]
    /\ hist' = [hist EXCEPT !.pc = "yield",
                            !.operations = Tail(page.operations),
                            !.next_record = page.next_record]

\* The reply to the page request arrives and is decoded.
HistoryResponse(reply) ==
    /\ hist.pc = "await"
    /\ \E i \in InFlight("operation_history") : wire' = Answer(i, reply)
    /\ LET res == CallResult(reply) IN
       IF ~res.ok THEN HistoryFail(res.err)
       ELSE IF res.value.operations = <<>> THEN HistoryEmpty(res.value)
       ELSE HistoryFirstYield(res.value)
    /\ UNCHANGED <<auth, api, remote, pay, envelope>>

\* The consumer polls again inside the for loop: the next operation.
HistoryYield ==
    /\ hist.pc = "yield"
    /\ hist.operations # <<>>
    /\ stream' = [stream EXCEPT !.items = Append(@, Item(Head(hist.operations)))]
    /\ hist' = [hist EXCEPT !.operations = Tail(@)]
    /\ UNCHANGED <<wire, auth, api, remote, pay, envelope>>

\* After the last operation of a page: match rsp.next_record.
HistoryAdvanceAlwaysLoops ==
    /\ hist.pc = "yield"
    /\ hist.operations = <<>>
    /\ HistoryLoop(IF hist.next_record = None THEN hist.start_record
                   ELSE hist.next_record[1])
    /\ UNCHANGED <<stream, auth, api, remote, pay, envelope>>

HistoryAdvance ==
    /\ hist.pc = "yield"
    /\ hist.operations = <<>>
    /\ IF hist.next_record = None
       THEN /\ hist' = [hist EXCEPT !.pc = "done"]
            /\ stream' = [stream EXCEPT !.ended = TRUE]
            /\ UNCHANGED <<wire, auth, api, remote, pay, envelope>>
       ELSE /\ HistoryLoop(hist.next_record[1])
            /\ UNCHANGED <<stream, auth, api, remote, pay, envelope>>

\* The end of a loop iteration: the answered requests and the pages go out of
\* scope, and the consumer has let go of the items it printed.
HistoryDrop ==
    /\ hist.pc \in {"yield", "done"}
    /\ wire # <<>>
    /\ wire' = <<>>
    /\ stream' = [stream EXCEPT !.items = <<>>]
    /\ UNCHANGED <<hist, auth, api, remote, pay, envelope>>

(***************************************************************************)
(* UnauthorizedClient::authorize.                                          *)
(***************************************************************************)
ClientId == "client-id"

RedirectUri == "https://client/callback"

\* Iteration orders of the access_scope HashSet.
ScopeOrders ==
    {<<>>, <<"account-info", "operation-history">>,
     <<"operation-history", "account-info">>}

Uuids == {"uuid-1", "uuid-2"}

RedirectTargets == {"https://remote/confirm?r=1", "https://remote/confirm?r=2"}

Codes == {"code-1", "code-2"}

CallbackErrors == {"Authorization code not found in redirect URL"}

Tokens == {"token-1", "token-2"}

TokenExchangeData == {[access_token |-> t] : t \in Tokens}

ExchangeReplies == CallReplies(TokenExchangeData)

\* The statuses on which the HTTP client consults the redirect policy.
RedirectStatuses == {301, 302}

GetRedirectReplies ==
    {SendFailed}
    \cup {[net |-> "ok", status |-> s, location |-> l, body |-> Garbage] :
            s \in {200} \cup RedirectStatuses,
            l \in {None} \cup {Some(u) : u \in RedirectTargets}}

\* The redirect policy closure: called once the reply is a redirect with a
\* Location; it fills the cell and stops the redirect.
RedirectPolicy(reply) ==
    IF reply.net = "ok" /\ reply.status \in RedirectStatuses /\ reply.location # None
    THEN reply.location
    ELSE None

\* RemoteCaller::get_redirect after send: the match on the status.
GetRedirect(reply) ==
    IF reply.net # "ok" THEN [outcome |-> "err", url |-> ""]
    ELSE IF reply.status = 302
         THEN IF RedirectPolicy(reply) = None
              THEN [outcome |-> "panic", url |-> ""]
              ELSE [outcome |-> "ok", url |-> RedirectPolicy(reply)[1]]
    ELSE [outcome |-> "err", url |-> ""]

CallbackResults ==
    {[ok |-> TRUE, code |-> c, err |-> ""] : c \in Codes}
    \cup {[ok |-> FALSE, code |-> "", err |-> e] : e \in CallbackErrors}

AuthOk(token) == [ok |-> TRUE, token |-> token, err |-> YandexError("")]

AuthErr(e) == [ok |-> FALSE, token |-> "", err |-> e]

AuthIdle ==
    [pc |-> "Unauthorized", redirect_url |-> None, redirect_addr |-> None,
     callback |-> None, temp_token |-> None, result |-> None]

AuthorizeParams(scope, uuid) ==
    [k \in {"client_id", "response_type", "redirect_uri", "scope", "instance_name"} |->
        CASE k = "client_id" -> ClientId
          [] k = "response_type" -> "code"
          [] k = "redirect_uri" -> RedirectUri
          [] k = "scope" -> Join(scope, " ")
          [] k = "instance_name" -> uuid]

ExchangeParams(temp_token) ==
    [k \in {"code", "client_id", "grant_type", "redirect_uri"} |->
        CASE k = "code" -> temp_token
          [] k = "client_id" -> ClientId
          [] k = "grant_type" -> "authorization_code"
          [] k = "redirect_uri" -> RedirectUri]

\* authorize starts: get_redirect to oauth/authorize with a fresh cell.
Authorize(scope, uuid) ==
    /\ NoAuthorize /\ NoHistory /\ NoApiCall /\ NoPayment
    /\ wire' = Append(wire, Request("authorize", 1, "get_redirect", "oauth/authorize",
                                     AuthorizeParams(scope, uuid)))
    /\ auth' = [auth EXCEPT !.pc = "AwaitingRedirect"]
    /\ UNCHANGED <<hist, stream, api, remote, pay, envelope>>

\* The reply to get_redirect: on success the callback is invoked with the
\* redirect target.
AuthorizeRedirect(reply) ==
    /\ auth.pc = "AwaitingRedirect"
    /\ \E i \in InFlight("authorize") : wire' = Answer(i, reply)
    /\ LET r == GetRedirect(reply) IN
       auth' = CASE r.outcome = "ok" ->
                      [auth EXCEPT !.pc = "AwaitingCallback",
                                   !.redirect_url = RedirectPolicy(reply),
                                   !.redirect_addr = Some(r.url)]
                 [] r.outcome = "err" ->
                      [auth EXCEPT !.pc = "Failed",
                                   !.redirect_url = RedirectPolicy(reply),
                                   !.result = Some(AuthErr(NetworkError))]
                 [] r.outcome = "panic" ->
                      [auth EXCEPT !.pc = "Panicked"]
    /\ UNCHANGED <<hist, stream, api, remote, pay, envelope>>

\* .context(AuthorizationCallbackError)?
AuthCallbackFailedExchanges(res) ==
    /\ auth' = [auth EXCEPT !.pc = "AwaitingExchange", !.callback = Some(res),
                            !.temp_token = Some(res.code)]
    /\ wire' = Append(wire, Request("authorize", 1, "call", "oauth/token",
                                     ExchangeParams(res.code)))

AuthCallbackFailed(res) ==
    /\ auth' = [auth EXCEPT !.pc = "Failed", !.callback = Some(res),
                            !.result = Some(AuthErr(AuthorizationCallbackError(res.err)))]
    /\ UNCHANGED wire

\* The call to oauth/token with the code the callback returned.
AuthExchangeSendsRedirect(res) ==
    /\ auth' = [auth EXCEPT !.pc = "AwaitingExchange", !.callback = Some(res),
                            !.temp_token = Some(res.code)]
    /\ wire' = Append(wire, Request("authorize", 1, "call", "oauth/token",
                                     ExchangeParams(auth.redirect_addr[1])))

AuthExchange(res) ==
    /\ auth' = [auth EXCEPT !.pc = "AwaitingExchange", !.callback = Some(res),
                            !.temp_token = Some(res.code)]
    /\ wire' = Append(wire, Request("authorize", 1, "call", "oauth/token",
                                     ExchangeParams(res.code)))

\* The callback's future resolves.
AuthorizeCallback(res) ==
    /\ auth.pc = "AwaitingCallback"
    /\ IF res.ok THEN AuthExchange(res) ELSE AuthCallbackFailed(res)
    /\ UNCHANGED <<hist, stream, api, remote, pay, envelope>>

\* The reply to the token exchange.
AuthorizeExchange(reply) ==
    /\ auth.pc = "AwaitingExchange"
    /\ \E i \in InFlight("authorize") : wire' = Answer(i, reply)
    /\ LET res == CallResult(reply) IN
       auth' = IF res.ok
               THEN [auth EXCEPT !.pc = "Authorized",
                                 !.result = Some(AuthOk(res.value.access_token))]
               ELSE [auth EXCEPT !.pc = "Failed", !.result = Some(AuthErr(res.err))]
    /\ UNCHANGED <<hist, stream, api, remote, pay, envelope>>

(***************************************************************************)
(* The single-call methods of Client: account_info, operation_details,     *)
(* process_payment and revoke_token.                                       *)
(***************************************************************************)
ApiPayloads == {[data |-> "payload"]}

\* The replies these methods are tried with: those that differ for
\* RemoteCaller::call and for the remote's acceptance.
ApiReplies ==
    {r \in CallReplies(ApiPayloads) :
        /\ r.body.errKind # "other"
        /\ r.body.shape => r.body.errKind = "absent"}

MoneySources ==
    {[kind |-> "Wallet", id |-> "", secure3d |-> None],
     [kind |-> "Card", id |-> "card-1", secure3d |-> None],
     [kind |-> "Card", id |-> "card-1",
      secure3d |-> Some([ext_auth_success_uri |-> "https://ok",
                         ext_auth_fail_uri |-> "https://fail"])]}

ProcessPaymentParams(request_id, money_source) ==
    LET p1 == Insert(EmptyMap, "request_id", request_id) IN
    IF money_source.kind = "Wallet" THEN Insert(p1, "money_source", "wallet")
    ELSE LET p2 == Insert(p1, "money_source", money_source.id) IN
         IF money_source.secure3d = None THEN p2
         ELSE Insert(Insert(p2, "ext_auth_success_uri",
                            money_source.secure3d[1].ext_auth_success_uri),
                     "ext_auth_fail_uri", money_source.secure3d[1].ext_auth_fail_uri)

\* The invocations: method, endpoint and parameters.
ApiCalls ==
    {[name |-> "account_info", endpoint |-> "api/account-info", params |-> EmptyMap],
     [name |-> "revoke_token", endpoint |-> "api/revoke", params |-> EmptyMap],
     [name |-> "operation_details", endpoint |-> "api/operation-details",
      params |-> Insert(EmptyMap, "operation_id", "op1")]}
    \cup {[name |-> "process_payment", endpoint |-> "api/process-payment",
           params |-> ProcessPaymentParams("request-1", m)] : m \in MoneySources}

ApiIdle == [pc |-> "idle", name |-> "", call |-> 0, result |-> None]

\* A method is invoked: the request goes to the caller and is awaited.
ApiCallReturnsEarly(c) ==
    /\ api.pc \in {"idle", "done"}
    /\ api.call < MaxCalls
    /\ NoHistory /\ NoAuthorize /\ NoPayment
    /\ api' = [pc |-> "done", name |-> c.name, call |-> api.call + 1,
               result |-> Some(Ok(NoPayload))]
    /\ wire' = Append(wire, Request(c.name, api.call + 1, "call", c.endpoint, c.params))
    /\ UNCHANGED <<hist, stream, auth, remote, pay, envelope>>

ApiCall(c) ==
    /\ api.pc \in {"idle", "done"}
    /\ api.call < MaxCalls
    /\ NoHistory /\ NoAuthorize /\ NoPayment
    /\ api' = [pc |-> "await", name |-> c.name, call |-> api.call + 1, result |-> None]
    /\ wire' = Append(wire, Request(c.name, api.call + 1, "call", c.endpoint, c.params))
    /\ UNCHANGED <<hist, stream, auth, remote, pay, envelope>>

\* What the remote may answer.  A token it has revoked is rejected, by an
\* error status or by an error envelope; a revocation it answers without
\* error status and without error envelope is accepted and makes the token
\* unusable.  A request may also fail to reach it, or its reply be lost.
Rejects(reply) ==
    reply.net = "ok" /\ (reply.status >= 400 \/ MatchesError(reply.body))

RemoteAnswer(i, reply) ==
    /\ remote.revoked => (reply.net # "ok" \/ Rejects(reply))
    /\ remote' = IF /\ wire[i].endpoint = "api/revoke"
                    /\ ~remote.revoked
                    /\ reply.net # "send_failed"
                    /\ ~Rejects(reply)
                 THEN [revoked |-> TRUE, accepted |-> remote.accepted \cup {i}]
                 ELSE remote

\* The reply arrives and the method returns.
ApiResponse(reply) ==
    /\ api.pc = "await"
    /\ \E i \in InFlight(api.name) :
         /\ wire' = Answer(i, reply)
         /\ RemoteAnswer(i, reply)
    /\ api' = [api EXCEPT !.pc = "done",
                          !.result = Some(IF api.name = "revoke_token"
                                          THEN CallEmptyResult(reply)
                                          ELSE CallResult(reply))]
    /\ UNCHANGED <<hist, stream, auth, pay, envelope>>

(***************************************************************************)
(* PaymentRequest: the constructors of Client, TestPaymentRequest and send.*)
(***************************************************************************)
UserIds ==
    {[kind |-> "Account", account |-> 41001, email |-> "", country |-> 0, national |-> 0],
     [kind |-> "Email", account |-> 0, email |-> "user@example.com", country |-> 0,
      national |-> 0],
     [kind |-> "Phone", account |-> 0, email |-> "", country |-> 7, national |-> 9110000]}

\* UserId::to_string: the account number in decimal, the email as it is,
\* the phone number in its international form.
UserIdToString(to) ==
    CASE to.kind = "Account" -> ToString(to.account)
      [] to.kind = "Email" -> to.email
      [] to.kind = "Phone" -> "+" \o ToString(to.country) \o ToString(to.national)

Amounts == {10, 25}

RequestAmounts == {[kind |-> k, value |-> v] : k \in {"Total", "Net"}, v \in Amounts}

TransferArgs ==
    {[to |-> to, amount |-> amount, comment |-> comment, message |-> message,
      label |-> label, codepro |-> codepro, hold_for_pickup |-> hold_for_pickup,
      expire_period |-> expire_period] :
        to \in UserIds, amount \in RequestAmounts, comment \in {"", "x"},
        message \in {"", "m"}, label \in {None, Some("y")}, codepro \in BOOLEAN,
        hold_for_pickup \in BOOLEAN, expire_period \in {0, 7}}

\* match amount: the key depends on the variant of RequestAmount.
InsertAmountKeepsTotal(params, amount) ==
    IF amount.kind = "Total"
    THEN Insert(params, "amount", ToString(amount.value))
    ELSE Insert(Insert(params, "amount", ToString(amount.value)),
                "amount_due", ToString(amount.value))

InsertAmount(params, amount) ==
    IF amount.kind = "Total"
    THEN Insert(params, "amount", ToString(amount.value))
    ELSE Insert(params, "amount_due", ToString(amount.value))

\* The parameters request_transfer puts into the PaymentRequest.
RequestTransferParamsLabelDefault(a) ==
    LET base == [k \in {"pattern_id", "to", "comment", "message", "codepro",
                        "hold_for_pickup", "expire_period"} |->
                    CASE k = "pattern_id" -> "p2p"
                      [] k = "to" -> UserIdToString(a.to)
                      [] k = "comment" -> a.comment
                      [] k = "message" -> a.message
                      [] k = "codepro" -> BoolToString(a.codepro)
                      [] k = "hold_for_pickup" -> BoolToString(a.hold_for_pickup)
                      [] k = "expire_period" -> ToString(a.expire_period)]
        p1 == InsertAmount(base, a.amount)
    IN Insert(p1, "label", IF a.label = None THEN "" ELSE a.label[1])

RequestTransferParams(a) ==
    LET base == [k \in {"pattern_id", "to", "comment", "message", "codepro",
                        "hold_for_pickup", "expire_period"} |->
                    CASE k = "pattern_id" -> "p2p"
                      [] k = "to" -> UserIdToString(a.to)
                      [] k = "comment" -> a.comment
                      [] k = "message" -> a.message
                      [] k = "codepro" -> BoolToString(a.codepro)
                      [] k = "hold_for_pickup" -> BoolToString(a.hold_for_pickup)
                      [] k = "expire_period" -> ToString(a.expire_period)]
        p1 == InsertAmount(base, a.amount)
    IN InsertIfSome(p1, "label", a.label)

\* The other map of request_shop_payment, as the pairs it iterates over.
ShopOthers == {<<>>, <<<<"sum", "10">>>>, <<<<"pattern_id", "other">>, <<"sum", "10">>>>}

RECURSIVE InsertAll(_, _)
InsertAll(params, pairs) ==
    IF pairs = <<>> THEN params
    ELSE InsertAll(Insert(params, Head(pairs)[1], Head(pairs)[2]), Tail(pairs))

RequestShopPaymentParams(pattern_id, other) ==
    InsertAll(Insert(EmptyMap, "pattern_id", pattern_id), other)

RequestMobilePaymentParams(phone_number, amount) ==
    [k \in {"pattern_id", "phone-number", "amount"} |->
        CASE k = "pattern_id" -> "phone-topup"
          [] k = "phone-number" -> phone_number
          [] k = "amount" -> ToString(amount)]

PaymentPayloads == {[status |-> "success", request_id |-> "request-1"]}

PaymentReplies == CallReplies(PaymentPayloads)

NoArgs == [to |-> [kind |-> "", account |-> 0, email |-> "", country |-> 0, national |-> 0],
           amount |-> [kind |-> "", value |-> 0],
           comment |-> "", message |-> "", label |-> None, codepro |-> FALSE,
           hold_for_pickup |-> FALSE, expire_period |-> 0]

PayIdle == [state |-> "none", ctor |-> "", args |-> NoArgs, params |-> EmptyMap,
            test |-> FALSE, result |-> None]

\* The unsent PaymentRequest a constructor returns.
PaymentRequest(ctor, args, params) ==
    [PayIdle EXCEPT !.state = "built", !.ctor = ctor, !.args = args, !.params = params]

RequestShopPayment(pattern_id, other) ==
    /\ NoPayment /\ NoHistory /\ NoAuthorize /\ NoApiCall
    /\ pay' = PaymentRequest("request_shop_payment", NoArgs,
                             RequestShopPaymentParams(pattern_id, other))
    /\ UNCHANGED <<wire, hist, stream, auth, api, remote, envelope>>

RequestTransfer ==
    /\ NoPayment /\ NoHistory /\ NoAuthorize /\ NoApiCall
    /\ \E a \in TransferArgs :
         pay' = PaymentRequest("request_transfer", a, RequestTransferParams(a))
    /\ UNCHANGED <<wire, hist, stream, auth, api, remote, envelope>>

RequestMobilePayment(phone_number, amount) ==
    /\ NoPayment /\ NoHistory /\ NoAuthorize /\ NoApiCall
    /\ pay' = PaymentRequest("request_mobile_payment", NoArgs,
                             RequestMobilePaymentParams(phone_number, amount))
    /\ UNCHANGED <<wire, hist, stream, auth, api, remote, envelope>>

\* TestPaymentRequest::from
IntoTestPaymentRequest ==
    /\ pay.state = "built"
    /\ ~pay.test
    /\ pay' = [pay EXCEPT !.test = TRUE]
    /\ UNCHANGED <<wire, hist, stream, auth, api, remote, envelope>>

\* send(self): the request is consumed and its parameters go to
\* api/request-payment; a TestPaymentRequest first inserts test_payment.
SendKeepsRequest ==
    /\ pay.state = "built"
    /\ Len(wire) < 2
    /\ LET params == IF pay.test THEN Insert(pay.params, "test_payment", BoolToString(TRUE))
                     ELSE pay.params IN
       /\ pay' = [pay EXCEPT !.params = params]
       /\ wire' = Append(wire, Request("send", Len(wire) + 1, "call",
                                        "api/request-payment", params))
    /\ UNCHANGED <<hist, stream, auth, api, remote, envelope>>

Send ==
    /\ pay.state = "built"
    /\ LET params == IF pay.test THEN Insert(pay.params, "test_payment", BoolToString(TRUE))
                     ELSE pay.params IN
       /\ pay' = [pay EXCEPT !.state = "sent", !.params = params]
       /\ wire' = Append(wire, Request("send", 1, "call", "api/request-payment", params))
    /\ UNCHANGED <<hist, stream, auth, api, remote, envelope>>

\* The reply to api/request-payment arrives and send returns.
SendResponse(reply) ==
    /\ pay.state = "sent"
    /\ \E i \in InFlight("send") : wire' = Answer(i, reply)
    /\ pay' = [pay EXCEPT !.state = "done", !.result = Some(CallResult(reply))]
    /\ UNCHANGED <<hist, stream, auth, api, remote, envelope>>

(***************************************************************************)
(* Envelope decoding on its own: a reply is drawn and CallerWrapper::call  *)
(* with into_result is applied to it.                                      *)
(***************************************************************************)
EnvelopeReplies ==
    CallReplies(HistoryPages \cup TokenExchangeData \cup ApiPayloads \cup PaymentPayloads)

Decode ==
    /\ envelope.result = None
    /\ envelope' = [envelope EXCEPT !.result = Some(CallResult(envelope.reply))]
    /\ UNCHANGED <<wire, hist, stream, auth, api, remote, pay>>

InitEnvelope ==
    /\ wire = <<>>
    /\ hist = HistoryIdle
    /\ stream = [items |-> <<>>, ended |-> FALSE]
    /\ auth = AuthIdle
    /\ api = ApiIdle
    /\ remote = [revoked |-> FALSE, accepted |-> {}]
    /\ pay = PayIdle
    /\ envelope \in [reply : EnvelopeReplies, result : {None}]

Init ==
    /\ wire = <<>>
    /\ hist = HistoryIdle
    /\ stream = [items |-> <<>>, ended |-> FALSE]
    /\ auth = AuthIdle
    /\ api = ApiIdle
    /\ remote = [revoked |-> FALSE, accepted |-> {}]
    /\ pay = PayIdle
    /\ envelope = [reply |-> Pending, result |-> None]

NextHistory ==
    \/ \E args \in HistoryArgs : OperationHistory(args)
    \/ HistoryPoll
    \/ \E reply \in HistoryReplies : HistoryResponse(reply)
    \/ HistoryYield
    \/ HistoryAdvance

SpecHistory == Init /\ [][NextHistory]_vars

\* The stream with a consumer that keeps polling it (while let Some(v) =
\* history.next().await) and a Transport whose every request resolves.  Only
\* what the generator holds is kept across iterations, so that the loop can
\* be followed for as long as it runs.
NextHistoryFair == NextHistory \/ HistoryDrop

SpecHistoryFair ==
    /\ Init
    /\ [][NextHistoryFair]_vars
    /\ WF_vars(HistoryPoll \/ HistoryYield \/ HistoryAdvance)
    /\ WF_vars(\E reply \in HistoryReplies : HistoryResponse(reply))
    /\ WF_vars(HistoryDrop)

NextAuth ==
    \/ \E scope \in ScopeOrders, uuid \in Uuids : Authorize(scope, uuid)
    \/ \E reply \in GetRedirectReplies : AuthorizeRedirect(reply)
    \/ \E res \in CallbackResults : AuthorizeCallback(res)
    \/ \E reply \in ExchangeReplies : AuthorizeExchange(reply)

SpecAuth == Init /\ [][NextAuth]_vars

NextApi ==
    \/ \E c \in ApiCalls : ApiCall(c)
    \/ \E reply \in ApiReplies : ApiResponse(reply)

SpecApi == Init /\ [][NextApi]_vars

NextPayment ==
    \/ \E pattern_id \in {"shop-1"}, other \in ShopOthers :
          RequestShopPayment(pattern_id, other)
    \/ RequestTransfer
    \/ \E amount \in Amounts : RequestMobilePayment("+79110000000", amount)
    \/ IntoTestPaymentRequest
    \/ Send
    \/ \E reply \in PaymentReplies : SendResponse(reply)

SpecPayment == Init /\ [][NextPayment]_vars

\* One run of a caller: any one of the families of entry points.
NextClient == NextApi \/ NextAuth \/ NextPayment

SpecClient == Init /\ [][NextClient]_vars

SpecEnvelope == InitEnvelope /\ [][Decode]_vars

(***************************************************************************)
(* Properties of the operation_history stream.                             *)
(***************************************************************************)
HistoryWire == SelectSeq(wire, LAMBDA r : r.by = "operation_history")

Answered(i) == HistoryWire[i].reply # Pending

PageResult(i) == CallResult(HistoryWire[i].reply)

\* The operations of the successfully decoded pages among the first n replies.
RECURSIVE OpsUpTo(_)
OpsUpTo(n) ==
    IF n = 0 THEN <<>>
    ELSE OpsUpTo(n - 1) \o
         (IF Answered(n) /\ PageResult(n).ok THEN PageResult(n).value.operations ELSE <<>>)

Items(ops) == [k \in DOMAIN ops |-> Item(ops[k])]

YieldedOps == LET oks == SelectSeq(stream.items, LAMBDA it : it.ok)
              IN [k \in DOMAIN oks |-> oks[k].op]

\* Two non-empty pages, the first with a next cursor, the second without.
TwoPageScript ==
    /\ Len(HistoryWire) = 2
    /\ \A i \in 1..2 : Answered(i) /\ PageResult(i).ok
                       /\ PageResult(i).value.operations # <<>>
    /\ PageResult(1).value.next_record # None
    /\ PageResult(2).value.next_record = None

\* C1: the stream yields the operations of the successive pages in response
\* order, nothing twice and nothing skipped: what has been yielded plus what
\* is left of the current page is the concatenation of the pages received,
\* and after the script [P1 with cursor, P2 without] the finished stream is
\* exactly P1's operations followed by P2's.
C1_PagesInOrder ==
    /\ YieldedOps \o hist.operations = OpsUpTo(Len(HistoryWire))
    /\ stream.ended <=> hist.pc = "done"
    /\ TwoPageScript =>
         /\ hist.pc \in {"yield", "done"}
         /\ hist.pc = "done" =>
              stream = [items |-> Items(PageResult(1).value.operations
                                        \o PageResult(2).value.operations),
                        ended |-> TRUE]

C1_Witness ==
    /\ TwoPageScript
    /\ hist.pc = "done"
    /\ Len(stream.items) = 4
    /\ PageResult(1).value.operations # PageResult(2).value.operations

\* C2: a page with an empty operation list ends the stream: nothing of it is
\* yielded, it is the last request issued, with or without a next cursor,
\* and an empty first page gives an empty stream after exactly one request.
C2_EmptyPageEnds ==
    \A i \in DOMAIN HistoryWire :
        (Answered(i) /\ PageResult(i).ok /\ PageResult(i).value.operations = <<>>) =>
            /\ i = Len(HistoryWire)
            /\ hist.pc = "done"
            /\ stream = [items |-> Items(OpsUpTo(i - 1)), ended |-> TRUE]
            /\ i = 1 => stream.items = <<>> /\ Len(wire) = 1

C2_Witness ==
    /\ Len(HistoryWire) = 1
    /\ Answered(1) /\ PageResult(1).ok
    /\ PageResult(1).value.operations = <<>>
    /\ PageResult(1).value.next_record # None
    /\ stream.ended

\* C3: a page whose fetch or decoding fails (transport failure, unparseable
\* body, error envelope) puts that failure into the stream right after the
\* operations of the earlier pages and ends the stream: it is the last item
\* and the failed request is the last request.
C3_FailureEndsStream ==
    /\ \A i \in DOMAIN HistoryWire :
          (Answered(i) /\ ~PageResult(i).ok) =>
              /\ i = Len(HistoryWire)
              /\ hist.pc = "done"
              /\ stream = [items |-> Append(Items(OpsUpTo(i - 1)),
                                            ErrItem(PageResult(i).err)),
                           ended |-> TRUE]
    /\ \A k \in DOMAIN stream.items :
          ~stream.items[k].ok =>
              /\ k = Len(stream.items)
              /\ stream.items[k].err \in {NetworkError, ParseError}
                    \cup {YandexError(t) : t \in ErrTexts}

C3_Witness ==
    /\ Len(HistoryWire) = 2
    /\ Answered(2)
    /\ PageResult(2) = Err(YandexError("some text"))
    /\ Len(stream.items) = 3
    /\ stream.ended

(***************************************************************************)
(* Properties of the authorization flow.                                   *)
(***************************************************************************)
AuthWire == SelectSeq(wire, LAMBDA r : r.by = "authorize")

\* C4: when the caller's callback fails, authorize returns
\* AuthorizationCallbackError carrying the callback's error and no call to
\* oauth/token is ever issued.
C4_CallbackFailure ==
    (auth.callback # None /\ ~auth.callback[1].ok) =>
        /\ auth.pc = "Failed"
        /\ auth.result = Some(AuthErr(AuthorizationCallbackError(auth.callback[1].err)))
        /\ \A i \in DOMAIN AuthWire : AuthWire[i].endpoint # "oauth/token"
        /\ Len(AuthWire) = 1

C4_Witness ==
    /\ auth.callback # None
    /\ ~auth.callback[1].ok
    /\ auth.result # None
    /\ AuthWire[1].reply.status = 302

\* The state of the flow in the terms of the state machine: the flow awaits
\* the redirect from the get_redirect call until the callback has returned.
Phase ==
    CASE auth.pc = "Unauthorized" -> "Unauthorized"
      [] auth.pc \in {"AwaitingRedirect", "AwaitingCallback"} -> "AwaitingRedirect"
      [] auth.pc = "AwaitingExchange" -> "AwaitingExchange"
      [] auth.pc = "Authorized" -> "Authorized"
      [] OTHER -> "Failed"

PhaseOrder ==
    {<<"Unauthorized", "AwaitingRedirect">>, <<"AwaitingRedirect", "AwaitingExchange">>,
     <<"AwaitingExchange", "Authorized">>,
     <<"AwaitingRedirect", "Failed">>, <<"AwaitingExchange", "Failed">>}

AuthorizeSteps ==
    /\ Len(AuthWire) <= 2
    /\ Phase # "Unauthorized" =>
         /\ AuthWire[1].kind = "get_redirect"
         /\ AuthWire[1].endpoint = "oauth/authorize"
    /\ \A i \in DOMAIN AuthWire : i > 1 => AuthWire[i].kind = "call"
    /\ auth.redirect_addr # None =>
         auth.redirect_addr = AuthWire[1].reply.location
    /\ Len(AuthWire) = 2 <=> (auth.callback # None /\ auth.callback[1].ok)
    /\ Phase \in {"AwaitingExchange", "Authorized"} =>
         /\ Len(AuthWire) = 2
         /\ auth.redirect_addr # None
         /\ AuthWire[2].endpoint = "oauth/token"
         /\ AuthWire[2].params["code"] = auth.callback[1].code
         /\ AuthWire[2].params["grant_type"] = "authorization_code"
    /\ Phase = "Authorized" =>
         /\ AuthWire[2].reply.net = "ok"
         /\ AuthWire[2].reply.body.shape
         /\ auth.result = Some(AuthOk(AuthWire[2].reply.body.payload.access_token))

\* C5: authorize goes through Unauthorized, AwaitingRedirect,
\* AwaitingExchange, Authorized in this order without skipping a state; it
\* issues one get_redirect to oauth/authorize, hands the returned target to
\* the callback, sends the callback's code in one call to oauth/token with
\* grant type authorization_code and returns that reply's access_token.
C5_AuthorizeOrder ==
    /\ []AuthorizeSteps
    /\ [][Phase' # Phase => <<Phase, Phase'>> \in PhaseOrder]_vars

C5_Witness ==
    /\ auth.pc = "Authorized"
    /\ auth.result = Some(AuthOk("token-2"))
    /\ auth.callback[1].code = "code-2"

(***************************************************************************)
(* Properties of envelope decoding.                                        *)
(***************************************************************************)
Body == envelope.reply.body

\* The body text reached the decoder.
Delivered == envelope.reply.net = "ok" /\ envelope.reply.status < 400

Decoded == envelope.result # None /\ Delivered

\* A JSON object with a string member "error".
ErrorEnvelope == Body.kind = "object" /\ Body.errKind = "string"

\* C6 as stated: the error envelope becomes YandexError with its text, a
\* body matching the success shape becomes the success payload, a body that
\* is not JSON becomes ParseError.
C6_ThreeShapes ==
    Decoded =>
        /\ ErrorEnvelope => envelope.result[1] = Err(YandexError(Body.error))
        /\ Body.shape => envelope.result[1] = Ok(Body.payload)
        /\ Body.kind = "garbage" => envelope.result[1] = Err(ParseError)

\* C6 amended: the error envelope has precedence.  A body with a string
\* member "error" becomes YandexError with that text even when it matches
\* the success shape; a body matching the success shape without such a
\* member becomes the success payload; a body that is not JSON, or matches
\* neither shape, becomes ParseError; the outcome is one of these three.
C6_EnvelopeOutcomes ==
    Decoded =>
        LET res == envelope.result[1] IN
        /\ ErrorEnvelope => res = Err(YandexError(Body.error))
        /\ (Body.shape /\ Body.errKind # "string") => res = Ok(Body.payload)
        /\ Body.kind = "garbage" => res = Err(ParseError)
        /\ (~Body.shape /\ ~ErrorEnvelope) => res = Err(ParseError)
        /\ \/ res.ok /\ Body.shape
           \/ ~res.ok /\ res.err = ParseError
           \/ ~res.ok /\ res.err.type = "YandexError" /\ Body.errKind = "string"

C6_Witness ==
    /\ Decoded
    /\ ErrorEnvelope
    /\ Body.shape
    /\ Body.payload \in HistoryPages
    /\ ~envelope.result[1].ok

(***************************************************************************)
(* Properties of the single-call methods.                                  *)
(***************************************************************************)
\* The result of the invocation that issued request i, once it returned.
Returned(i) ==
    CASE wire[i].by = "authorize" -> auth.pc \in {"Authorized", "Failed"}
      [] wire[i].by = "send" -> pay.state = "done"
      [] wire[i].by = "operation_history" -> hist.pc = "done"
      [] OTHER -> api.call > wire[i].call \/ (api.call = wire[i].call /\ api.pc = "done")

SameCall(i) == {j \in DOMAIN wire : wire[j].by = wire[i].by /\ wire[j].call = wire[i].call}

\* C7: revoke_token with an already revoked token is reported as a failure,
\* and revoke_token returns Ok only when the remote accepted the revocation.
C7_RevokeReported ==
    \A i \in DOMAIN wire :
        (wire[i].endpoint = "api/revoke" /\ api.call = wire[i].call /\ api.pc = "done") =>
            /\ (\E j \in remote.accepted : j < i) => ~api.result[1].ok
            /\ api.result[1].ok => i \in remote.accepted

\* C8 as stated: every public call issues at most one request and does not
\* return while it is in flight.
C8_OneRequestPerCall ==
    \A i \in DOMAIN wire :
        /\ Cardinality(SameCall(i)) <= 1
        /\ Returned(i) => wire[i].reply # Pending

\* C8 amended: account_info, operation_details, process_payment,
\* revoke_token and send issue one request; authorize issues at most two,
\* the get_redirect and, after its reply and the callback, the exchange, so
\* never two at a time; no call returns while a request of it is in flight.
C8_RequestsPerCall ==
    \A i \in DOMAIN wire :
        /\ Cardinality(SameCall(i)) <= (IF wire[i].by = "authorize" THEN 2 ELSE 1)
        /\ Cardinality({j \in SameCall(i) : wire[j].reply = Pending}) <= 1
        /\ \A j \in SameCall(i) : j < i => wire[j].reply # Pending
        /\ Returned(i) => wire[i].reply # Pending

C8_Witness ==
    /\ Len(wire) = 2
    /\ Cardinality(SameCall(1)) = 2
    /\ Returned(2)
    /\ auth.pc = "Authorized"

(***************************************************************************)
(* Properties of PaymentRequest.                                           *)
(***************************************************************************)
SendWire == SelectSeq(wire, LAMBDA r : r.by = "send")

SentParams == SendWire[1].params

PaymentWire ==
    /\ Len(wire) <= 1
    /\ pay.state \in {"none", "built"} => wire = <<>>
    /\ pay.state \in {"sent", "done"} =>
         /\ Len(SendWire) = 1
         /\ SendWire[1].kind = "call"
         /\ SendWire[1].endpoint = "api/request-payment"
         /\ SentParams = pay.params

\* A step that builds a request leaves the wire alone; a step that puts a
\* request on the wire consumes the PaymentRequest and carries its
\* parameters, with test_payment added for a TestPaymentRequest.
PaymentStep ==
    /\ pay'.state = "built" => wire' = wire
    /\ wire' # wire /\ Len(wire') > Len(wire) =>
         /\ pay.state = "built"
         /\ pay'.state = "sent"
         /\ wire' = Append(wire, Request("send", 1, "call", "api/request-payment",
                                IF pay.test THEN Insert(pay.params, "test_payment", "true")
                                ELSE pay.params))

\* C9: the constructors issue no network call; only send does, exactly one
\* call to api/request-payment carrying the request's parameters, and a
\* PaymentRequest is sent at most once.
C9_SendOnce ==
    /\ []PaymentWire
    /\ [][PaymentStep]_vars

C9_Witness ==
    /\ pay.state = "done"
    /\ pay.ctor = "request_mobile_payment"
    /\ Len(SendWire) = 1
    /\ SendWire[1].reply # Pending

TransferSent == pay.ctor = "request_transfer" /\ pay.state \in {"sent", "done"}

\* A String or bool argument the caller left at its default is not set.
IsSet(k) ==
    CASE k = "label" -> pay.args.label # None
      [] k = "comment" -> pay.args.comment # ""
      [] k = "message" -> pay.args.message # ""
      [] k = "codepro" -> pay.args.codepro
      [] k = "hold_for_pickup" -> pay.args.hold_for_pickup

\* C10 as stated: label, comment, message and the flags are in the body
\* only if the caller set them.
C10_OptionalOnlyIfSet ==
    TransferSent =>
        \A k \in {"label", "comment", "message", "codepro", "hold_for_pickup"} :
            k \in DOMAIN SentParams => IsSet(k)

\* C10 amended: the body of a sent transfer has the keys pattern_id, to,
\* comment, message, codepro, hold_for_pickup, expire_period, one of amount
\* and amount_due, and label exactly when the caller passed one (and
\* test_payment for a TestPaymentRequest); comment, message and the flags
\* are always there with the values passed, an empty string included.
C10_TransferBody ==
    TransferSent =>
        /\ DOMAIN SentParams =
              {"pattern_id", "to", "comment", "message", "codepro", "hold_for_pickup",
               "expire_period"}
              \cup {IF pay.args.amount.kind = "Total" THEN "amount" ELSE "amount_due"}
              \cup (IF pay.args.label # None THEN {"label"} ELSE {})
              \cup (IF pay.test THEN {"test_payment"} ELSE {})
        /\ SentParams["pattern_id"] = "p2p"
        /\ SentParams["comment"] = pay.args.comment
        /\ SentParams["message"] = pay.args.message
        /\ SentParams["codepro"] = (IF pay.args.codepro THEN "true" ELSE "false")
        /\ SentParams["hold_for_pickup"] =
              (IF pay.args.hold_for_pickup THEN "true" ELSE "false")
        /\ pay.args.label # None => SentParams["label"] = pay.args.label[1]

C10_Witness ==
    /\ TransferSent
    /\ pay.state = "done"
    /\ ~pay.test
    /\ pay.args.comment = "x"
    /\ pay.args.label = Some("y")
    /\ pay.args.message = ""

(***************************************************************************)
(* Termination of the page loop.                                           *)
(***************************************************************************)
\* C11 as stated: whatever the remote answers, the page loop of a stream that
\* was created eventually stops and the stream ends.
C11_LoopTerminates == (hist.pc # "idle") ~> stream.ended

\* The page just yielded was not empty and carried a next cursor.
MorePages ==
    hist.pc = "yield" /\ hist.operations = <<>> /\ hist.next_record # None

NewRequest == Len(wire') = Len(wire) + 1

\* The outcome of the reply that this step delivers.
Delivery == CallResult(wire'[CHOOSE i \in InFlight("operation_history") : TRUE].reply)

LoopStep ==
    /\ NewRequest => (hist.pc = "loop" \/ MorePages)
    /\ (MorePages /\ hist' # hist) => (NewRequest /\ ~stream.ended')
    /\ (hist.pc = "await" /\ hist' # hist) =>
          IF Delivery.ok /\ Delivery.value.operations # <<>>
          THEN ~stream.ended' /\ hist'.next_record = Delivery.value.next_record
          ELSE stream.ended'
    /\ (stream.ended' /\ ~stream.ended) =>
          \/ hist.pc = "await"
          \/ hist.pc = "yield" /\ hist.operations = <<>> /\ hist.next_record = None
    /\ stream.ended => (stream.ended' /\ ~NewRequest /\ hist' = hist)

\* C11 amended: the loop has no bound of its own.  It stops exactly on a
\* failure, on an empty page, or after the operations of a page without a
\* next cursor; after a page that is not empty and carries a cursor it always
\* issues one more request, so the remote decides how many there are, and
\* once the stream has ended no request follows.
C11_LoopStops == [][LoopStep]_vars

C11_Witness ==
    /\ stream.ended
    /\ hist.pc = "done"
    /\ hist.start_record = 5
    /\ hist.next_record = None
    /\ wire = <<>>

(***************************************************************************)
(* The amount of a transfer.                                               *)
(***************************************************************************)
TransferBuilt == pay.ctor = "request_transfer" /\ pay.state # "none"

\* C12: the parameters of a request built by request_transfer have the key
\* amount, with the amount passed, when the RequestAmount is Total, and the
\* key amount_due when it is Net, and never both keys.
C12_AmountKey ==
    TransferBuilt =>
        LET keys == DOMAIN pay.params
            amount == pay.args.amount
        IN /\ amount.kind = "Total" =>
                 "amount" \in keys /\ pay.params["amount"] = ToString(amount.value)
           /\ amount.kind = "Net" =>
                 "amount_due" \in keys /\ pay.params["amount_due"] = ToString(amount.value)
           /\ ~({"amount", "amount_due"} \subseteq keys)

C12_Witness ==
    /\ TransferBuilt
    /\ pay.state = "built"
    /\ pay.args.amount = [kind |-> "Net", value |-> 25]
    /\ pay.params["amount_due"] = "25"

(***************************************************************************)
(* The page requests of one stream.                                        *)
(***************************************************************************)
StartRecord(n) == Insert(HistoryParams(hist.args.filter), "start-record", ToString(n))

PageRequests ==
    /\ Cardinality(InFlight("operation_history")) <= 1
    /\ HistoryWire # <<>> => HistoryWire[1].params = StartRecord(hist.args.start_record)
    /\ \A i \in 2..Len(HistoryWire) :
          /\ Answered(i - 1)
          /\ PageResult(i - 1).ok
          /\ PageResult(i - 1).value.next_record # None
          /\ HistoryWire[i].params = StartRecord(PageResult(i - 1).value.next_record[1])

\* A later page request is issued when every earlier one has resolved and
\* the consumer has been given all the operations received so far.
PageRequestStep ==
    (Len(wire') > Len(wire) /\ wire # <<>>) =>
        /\ InFlight("operation_history") = {}
        /\ stream.items = Items(OpsUpTo(Len(HistoryWire)))
        /\ stream.items' = stream.items

\* C13: the first page request carries the caller's start-record; a later
\* one is issued only after the previous response has resolved and all its
\* operations have been yielded, carries the next_record of that response as
\* start-record and the same types, label, from, till and details; at most
\* one page request is in flight.
C13_SequentialPages == []PageRequests /\ [][PageRequestStep]_vars

C13_Witness ==
    /\ Len(HistoryWire) = 2
    /\ hist.args.start_record = 3
    /\ hist.args.filter.label = Some("lbl")
    /\ HistoryWire[2].params["start-record"] = "5"
    /\ HistoryWire[2].params["label"] = "lbl"
    /\ HistoryWire[2].reply = Pending
    /\ Len(stream.items) = 2

(***************************************************************************)
(* The redirect cell of RemoteCaller::get_redirect (auth.redirect_url).    *)
(***************************************************************************)
RedirectReply == AuthWire[1].reply

\* What the match on the status finds once the response is there.
CellRead ==
    (AuthWire # <<>> /\ RedirectReply.net = "ok") =>
        IF RedirectReply.status = 302
        THEN /\ auth.redirect_url # None
             /\ auth.pc # "Panicked"
             /\ auth.redirect_addr = auth.redirect_url
        ELSE /\ auth.redirect_addr = None
             /\ auth.pc = "Failed"
             /\ auth.result = Some(AuthErr(NetworkError))

\* The cell is empty until the step that delivers the response, in which the
\* policy fills it with the target of the redirect, and it keeps its content.
CellWrite ==
    auth.redirect_url' # auth.redirect_url =>
        /\ auth.redirect_url = None
        /\ auth.pc = "AwaitingRedirect"
        /\ RedirectReply = Pending
        /\ auth.redirect_url' = AuthWire'[1].reply.location

\* C14: the redirect cell is written at most once, by the redirect policy,
\* and read only after the response has arrived; whenever the status is 302
\* the cell is filled, the read does not find it empty and get_redirect
\* returns the captured target; for any other status get_redirect fails
\* with the unexpected-status failure and the cell is not read.
C14_RedirectCell == []CellRead /\ [][CellWrite]_vars

=============================================================================
